---- MODULE Spec2Model ----
(***************************************************************************)
(* State-machine model of transcribe.py: the run() pipeline               *)
(* (download -> graph -> normalize -> transcribe -> backup), the setup    *)
(* mode of main(), the SIGINT handler ctrl_c, the exit status, and the    *)
(* directories the stages read and write.                                 *)
(* The external collaborators (yt-dlp, FFmpegNormalize, whisper ./main)   *)
(* are modelled at their call sites by the outcomes the code can observe. *)
(***************************************************************************)
EXTENDS Integers, FiniteSets, Sequences, TLC

\* Number of work items the remote playlist can offer.
NumItems == 2

ItemNames == <<"ep1", "ep2", "ep3", "ep4">>
Items == {ItemNames[k] : k \in 1..NumItems}

\* The three transcript formats requested with -otxt -ovtt -osrt.
Artifacts == {"txt", "srt", "vtt"}

\* Directories under whisper.cpp/ that run() touches.
Dirs == {"playlist", "playlist_normalized", "output", "backup/input", "backup/normalized"}

\* A filename is <<base, extension>>.
Wav(i) == <<i, "wav">>
LedgerFile == <<"downloaded", "txt">>

VARIABLES
    fs,        \* fs[d]: the set of filenames present in directory d
    torn,      \* set of <<d, filename>>: files that exist but were only partially written
    ledger,    \* item ids recorded in playlist/downloaded.txt
    pc,        \* position of the process: a resting state or a point inside run()
    todo,      \* the part of the current loop's file list not yet processed
    batch,     \* file list of the current transcribe_audio_files execution
    found,     \* found[f]: the artifacts of f that existed when the loop examined f
    calls,     \* calls[f]: collaborator invocations for f in the current transcription stage
    failed,    \* files whose collaborator call returned non-zero in the current/last run
    owed,      \* files whose call returned non-zero in an earlier run, not invoked since
    retried,   \* files of owed for which the current/last run invoked the collaborator
    normR,     \* .wav names in the input directory when normalize_audio_files listed it
    normN,     \* names in the output directory when normalize_audio_files listed it
    handed,    \* handed[f]: times f was handed to the normalizer in the current stage
    normRan,   \* a normalize_audio_files execution has returned
    added,     \* a raw file appeared in playlist/ since the last returned normalization
    arRaw,     \* .wav names in playlist/ at the start of archival
    arNorm,    \* .wav names in playlist_normalized/ at the start of archival
    archived,  \* raw files moved by an archival stage that ran to its end
    resume,    \* files normalized by a run interrupted before any transcription
    redone,    \* the current/last run re-processed an item whose output was fully written
    afterAbort, \* the process before the current/last one ended by an uncaught exception
    cause,     \* why the current/last process met a fatal condition: "none", "item", "env"
    mutated,   \* the current/last process created or changed a file or a ledger entry
    succeeded, \* files for which a collaborator call returned zero with all three artifacts
    again      \* files for which the collaborator was invoked after such a call

vars == <<fs, torn, ledger, pc, todo, batch, found, calls, failed, owed, retried, normR,
          normN, handed, normRan, added, arRaw, arNorm, archived, resume, redone,
          afterAbort, cause, mutated, succeeded, again>>

stageHist == <<batch, found, calls>>
normHist == <<normR, normN, handed>>
arHist == <<arRaw, arNorm>>

Resting == {"idle", "done", "setup_done", "aborted", "interrupted"}

WavNames == {Wav(i) : i \in Items}
NoCalls == [f \in WavNames |-> 0]
\* found[f] of a file the loop has not examined.
Unexamined == {"?"}
NoneFound == [f \in WavNames |-> Unexamined]

----------------------------------------------------------------------------
\* Pure helpers of the stage functions.

\* [file for file in os.listdir(d) if file.endswith(".wav")]
WavFiles(d) == {f \in fs[d] : f[2] = "wav"}

\* os.path.splitext(file)[0]
base_filename(f) == f[1]

\* os.path.exists(f"output/{base}.{ext}")
artifact_exists(b, ext) == <<b, ext>> \in fs["output"]

\* The existence check looking for the artifacts beside the input file.
all_exist_in_input_dir(f) ==
    \A ext \in Artifacts : <<base_filename(f), ext>> \in fs["playlist_normalized"]

\* The existence check with "or" in place of "and".
any_exist(f) ==
    \/ artifact_exists(base_filename(f), "txt")
    \/ artifact_exists(base_filename(f), "srt")
    \/ artifact_exists(base_filename(f), "vtt")

\* The existence check with the .vtt file looked up under another extension.
all_exist_wrong_extension(f) ==
    /\ artifact_exists(base_filename(f), "txt")
    /\ artifact_exists(base_filename(f), "srt")
    /\ artifact_exists(base_filename(f), "wav")

\* txt_exists and srt_exists and vtt_exists
all_exist(f) ==
    /\ artifact_exists(base_filename(f), "txt")
    /\ artifact_exists(base_filename(f), "srt")
    /\ artifact_exists(base_filename(f), "vtt")

\* The work list without the filter on existing_files.
files_unfiltered(files, existing_files) == files

\* The work list with the filter inverted: only the files already in the output.
files_already_normalized(files, existing_files) == {f \in files : f \in existing_files}

\* files_to_normalize = [file for file in files if file not in existing_files]
files_to_normalize(files, existing_files) == {f \in files : f \notin existing_files}

\* backup_files called on the directory the normalized files are in.
backup_playlist_normalized == "playlist_normalized"

\* The directory run() passes to backup_files as normalized_directory.
backup_normalized_arg == "output"

\* A file that exists and is not partially written.
Intact(d, f) == f \in fs[d] /\ <<d, f>> \notin torn
FullyTranscribed(f) == \A ext \in Artifacts : Intact("output", <<base_filename(f), ext>>)
\* The artifacts of f present in output/.
Existing(f) == {ext \in Artifacts : <<base_filename(f), ext>> \in fs["output"]}

\* shutil.move(src/f, dst/f) for every f of files: the files leave src and appear in dst.
MovedFs(files, src, dst) ==
    [fs EXCEPT ![src] = @ \ files, ![dst] = @ \cup files]
MovedTorn(files, src, dst) ==
    {p \in torn : ~(p[1] = src /\ p[2] \in files)}
        \cup {<<dst, f>> : f \in {g \in files : <<src, g>> \in torn}}

WrittenFs(d, files) == [fs EXCEPT ![d] = @ \cup files]
ArtifactFiles(f, exts) == {<<base_filename(f), ext>> : ext \in exts}
Paths(d, files) == {<<d, f>> : f \in files}
HandedSet == {f \in WavNames : handed[f] > 0}

\* ./main writes the requested formats one after the other, in the order of the
\* -otxt -ovtt -osrt flags of whisper_cmd; Written(n) are the first n of them.
WriteOrder == <<"txt", "vtt", "srt">>
Written(n) == {WriteOrder[k] : k \in 1..n}

\* What one ./main call that returned leaves behind.  Return code 0: the three artifacts
\* are written.  Non-zero: the call stopped before the last artifact ("its artifacts
\* partially or not written").
whisper_outcomes ==
    {[rc |-> 0, written |-> Written(3)]}
        \cup {[rc |-> 1, written |-> Written(n)] : n \in 0..2}

\* The per-stage observations are dropped when the run leaves the stage they describe.
DropStageHist ==
    /\ batch' = {}
    /\ found' = NoneFound
    /\ calls' = NoCalls
DropNormHist ==
    /\ normR' = {}
    /\ normN' = {}
    /\ handed' = NoCalls
DropArHist ==
    /\ arRaw' = {}
    /\ arNorm' = {}

----------------------------------------------------------------------------
\* The step writes to the filesystem or to the ledger.
Touched == fs' # fs \/ ledger' # ledger \/ torn' # torn

\* Bookkeeping of a step inside a process: c is the fatal condition the step met.
Recorded(c) ==
    /\ cause' = c
    /\ mutated' = (mutated \/ Touched)
    /\ UNCHANGED afterAbort

Init ==
    /\ fs = [d \in Dirs |-> {}]
    /\ torn = {}
    /\ ledger = {}
    /\ pc = "idle"
    /\ todo = {}
    /\ batch = {}
    /\ found = NoneFound
    /\ calls = NoCalls
    /\ failed = {}
    /\ owed = {}
    /\ retried = {}
    /\ normR = {}
    /\ normN = {}
    /\ handed = NoCalls
    /\ normRan = FALSE
    /\ added = FALSE
    /\ arRaw = {}
    /\ arNorm = {}
    /\ archived = {}
    /\ resume = {}
    /\ redone = FALSE
    /\ afterAbort = FALSE
    /\ cause = "none"
    /\ mutated = FALSE
    /\ succeeded = {}
    /\ again = {}

\* run(), up to the creation of the working directories and the ledger file.
run_start ==
    /\ pc \in Resting
    /\ pc' = "download"
    /\ fs' = WrittenFs("playlist", {LedgerFile})
    /\ owed' = owed \cup failed
    /\ failed' = {}
    /\ retried' = {}
    /\ redone' = FALSE
    /\ todo' = {}
    /\ DropArHist
    /\ UNCHANGED <<torn, ledger, stageHist, normHist, normRan, added, archived, resume>>
    /\ afterAbort' = (pc = "aborted")
    /\ cause' = "none"
    /\ mutated' = (fs' # fs)
    /\ UNCHANGED <<succeeded, again>>

\* run(): os.chdir("whisper.cpp") raises because the directory is absent; nothing has
\* been created yet.
run_raise ==
    /\ pc \in Resting
    /\ pc' = "aborted"
    /\ owed' = owed \cup failed
    /\ failed' = {}
    /\ retried' = {}
    /\ redone' = FALSE
    /\ todo' = {}
    /\ resume' = {}
    /\ DropArHist
    /\ afterAbort' = (pc = "aborted")
    /\ cause' = "env"
    /\ mutated' = FALSE
    /\ UNCHANGED <<fs, torn, ledger, stageHist, normHist, normRan, added, archived,
                   succeeded, again>>

\* download_audio_files without the download_archive option: any item may be fetched.
download_audio_files_no_archive(S, ok) ==
    /\ pc = "download"
    /\ S \subseteq Items
    /\ fs' = WrittenFs("playlist", {Wav(i) : i \in S})
    /\ ledger' = ledger \cup S
    /\ added' = (added \/ S # {})
    /\ pc' = IF ok THEN "graph" ELSE "aborted"
    /\ resume' = IF ok THEN resume ELSE {}
    /\ UNCHANGED <<torn, todo, stageHist, failed, owed, retried, normHist, normRan, arHist,
                   archived, redone>>
    /\ Recorded(IF ok THEN "none" ELSE "env")
    /\ UNCHANGED <<succeeded, again>>

\* download_audio_files: yt-dlp fetches a set S of items not in the download archive,
\* writes <id>.wav for each and records the id; ok = FALSE is ydl.download raising.
download_audio_files(S, ok) ==
    /\ pc = "download"
    /\ S \subseteq Items \ ledger
    /\ fs' = WrittenFs("playlist", {Wav(i) : i \in S})
    /\ ledger' = ledger \cup S
    /\ added' = (added \/ S # {})
    /\ pc' = IF ok THEN "graph" ELSE "aborted"
    /\ resume' = IF ok THEN resume ELSE {}
    /\ UNCHANGED <<torn, todo, stageHist, failed, owed, retried, normHist, normRan, arHist,
                   archived, redone>>
    /\ Recorded(IF ok THEN "none" ELSE "env")
    /\ UNCHANGED <<succeeded, again>>

\* generate_graph: reads playlist/, writes only ../audio_lengths_histogram.png;
\* ok = FALSE is an exception from librosa / matplotlib.
generate_graph(ok) ==
    /\ pc = "graph"
    /\ pc' = IF ok THEN "normalize" ELSE "aborted"
    /\ resume' = IF ok THEN resume ELSE {}
    /\ UNCHANGED <<fs, torn, ledger, todo, stageHist, failed, owed, retried, normHist,
                   normRan, added, arHist, archived, redone>>
    /\ Recorded(IF ok THEN "none" ELSE "env")
    /\ UNCHANGED <<succeeded, again>>

\* normalize_audio_files, up to normalizer.add_media_file for every file of the work list.
normalize_begin ==
    /\ pc = "normalize"
    /\ LET files == WavFiles("playlist")
           existing_files == fs["playlist_normalized"]
           work == files_to_normalize(files, existing_files)
       IN /\ todo' = work
          /\ normR' = files
          /\ normN' = existing_files
          /\ handed' = [f \in WavNames |-> IF f \in work THEN 1 ELSE 0]
    /\ pc' = "normalizing"
    /\ UNCHANGED <<fs, torn, ledger, stageHist, failed, owed, retried, normRan, added,
                   arHist, archived, resume, redone>>
    /\ Recorded("none")
    /\ UNCHANGED <<succeeded, again>>

\* normalize_audio_files: FFmpegNormalize(...) raises because ffmpeg is absent.
normalize_raise ==
    /\ pc = "normalize"
    /\ pc' = "aborted"
    /\ resume' = {}
    /\ UNCHANGED <<fs, torn, ledger, todo, stageHist, failed, owed, retried, normHist,
                   normRan, added, arHist, archived, redone, succeeded, again>>
    /\ Recorded("env")

\* normalize_file with files_out built from input_directory.
normalize_file_into_input(f, ok) ==
    /\ pc = "normalizing"
    /\ f \in todo
    /\ IF ok
       THEN /\ fs' = WrittenFs("playlist", {f})
            /\ torn' = torn \ {<<"playlist", f>>}
            /\ todo' = todo \ {f}
            /\ redone' = (redone \/ Intact("playlist_normalized", f))
            /\ UNCHANGED <<pc, resume, normHist>>
       ELSE /\ pc' = "aborted"
            /\ todo' = {}
            /\ resume' = {}
            /\ DropNormHist
            /\ UNCHANGED <<fs, torn, redone>>
    /\ UNCHANGED <<ledger, stageHist, failed, owed, retried, normRan, added, arHist, archived>>
    /\ Recorded(IF ok THEN "none" ELSE "item")
    /\ UNCHANGED <<succeeded, again>>

\* normalizer.run_normalization(), one media file: the output file is written, or the
\* normalizer raises and the exception leaves run().
normalize_file(f, ok) ==
    /\ pc = "normalizing"
    /\ f \in todo
    /\ IF ok
       THEN /\ fs' = WrittenFs("playlist_normalized", {f})
            /\ torn' = torn \ {<<"playlist_normalized", f>>}
            /\ todo' = todo \ {f}
            /\ redone' = (redone \/ Intact("playlist_normalized", f))
            /\ UNCHANGED <<pc, resume, normHist>>
       ELSE /\ pc' = "aborted"
            /\ todo' = {}
            /\ resume' = {}
            /\ DropNormHist
            /\ UNCHANGED <<fs, torn, redone>>
    /\ UNCHANGED <<ledger, stageHist, failed, owed, retried, normRan, added, arHist, archived>>
    /\ Recorded(IF ok THEN "none" ELSE "item")
    /\ UNCHANGED <<succeeded, again>>

\* normalize_audio_files returns to run().
normalize_return ==
    /\ pc = "normalizing"
    /\ todo = {}
    /\ pc' = "transcribe"
    /\ normRan' = TRUE
    /\ added' = FALSE
    /\ UNCHANGED <<fs, torn, ledger, todo, stageHist, failed, owed, retried, normHist,
                   arHist, archived, resume, redone>>
    /\ Recorded("none")
    /\ UNCHANGED <<succeeded, again>>

\* transcribe_audio_files: the listing of files_directory.
transcribe_begin ==
    /\ pc = "transcribe"
    /\ LET files == WavFiles("playlist_normalized")
       IN /\ todo' = files
          /\ batch' = files
    /\ found' = NoneFound
    /\ calls' = NoCalls
    /\ pc' = "transcribing"
    /\ UNCHANGED <<fs, torn, ledger, failed, owed, retried, normHist, normRan, added,
                   arHist, archived, resume, redone>>
    /\ Recorded("none")
    /\ UNCHANGED <<succeeded, again>>

\* transcribe_file leaving the loop when the return code is non-zero.
transcribe_file_stops_on_error(f, out) ==
    /\ pc = "transcribing"
    /\ f \in todo
    /\ found' = [found EXCEPT ![f] = Existing(f)]
    /\ IF all_exist(f)
       THEN /\ todo' = todo \ {f}
            /\ UNCHANGED <<fs, torn, calls, failed, owed, retried, redone, succeeded, again>>
       ELSE /\ out \in whisper_outcomes
            /\ todo' = IF out.rc # 0 THEN {} ELSE todo \ {f}
            /\ calls' = [calls EXCEPT ![f] = @ + 1]
            /\ owed' = owed \ {f}
            /\ retried' = retried \cup ({f} \cap owed)
            /\ redone' = (redone \/ FullyTranscribed(f))
            /\ fs' = WrittenFs("output", ArtifactFiles(f, out.written))
            /\ torn' = torn \ Paths("output", ArtifactFiles(f, out.written))
            /\ failed' = IF out.rc # 0 THEN failed \cup {f} ELSE failed
            /\ again' = again \cup ({f} \cap succeeded)
            /\ succeeded' = IF out.rc = 0 /\ out.written = Artifacts
                            THEN succeeded \cup {f} ELSE succeeded
    /\ UNCHANGED <<ledger, pc, batch, normHist, normRan, added, arHist, archived, resume>>
    /\ Recorded("none")

\* One iteration of the loop of transcribe_audio_files: the existence check, and for an
\* incomplete set one subprocess.run of ./main and the test of its return code.
transcribe_file(f, out) ==
    /\ pc = "transcribing"
    /\ f \in todo
    /\ todo' = todo \ {f}
    /\ found' = [found EXCEPT ![f] = Existing(f)]
    /\ IF all_exist(f)
       THEN UNCHANGED <<fs, torn, calls, failed, owed, retried, redone, succeeded, again>>
       ELSE /\ out \in whisper_outcomes
            /\ calls' = [calls EXCEPT ![f] = @ + 1]
            /\ owed' = owed \ {f}
            /\ retried' = retried \cup ({f} \cap owed)
            /\ redone' = (redone \/ FullyTranscribed(f))
            /\ fs' = WrittenFs("output", ArtifactFiles(f, out.written))
            /\ torn' = torn \ Paths("output", ArtifactFiles(f, out.written))
            /\ failed' = IF out.rc # 0 THEN failed \cup {f} ELSE failed
            /\ again' = again \cup ({f} \cap succeeded)
            /\ succeeded' = IF out.rc = 0 /\ out.written = Artifacts
                            THEN succeeded \cup {f} ELSE succeeded
    /\ UNCHANGED <<ledger, pc, batch, normHist, normRan, added, arHist, archived, resume>>
    /\ Recorded("none")

\* transcribe_raise that removes the normalized files before the exception leaves run().
transcribe_raise_cleanup(f) ==
    /\ pc = "transcribing"
    /\ f \in todo
    /\ ~all_exist(f)
    /\ pc' = "aborted"
    /\ todo' = {}
    /\ resume' = {}
    /\ DropStageHist
    /\ DropNormHist
    /\ fs' = [fs EXCEPT !["playlist_normalized"] = {}]
    /\ UNCHANGED <<torn, ledger, failed, owed, retried, normRan, added, arHist,
                   archived, redone>>
    /\ Recorded("env")
    /\ UNCHANGED <<succeeded, again>>

\* subprocess.run raises (./main cannot be started): the exception leaves run().
transcribe_raise(f) ==
    /\ pc = "transcribing"
    /\ f \in todo
    /\ ~all_exist(f)
    /\ pc' = "aborted"
    /\ todo' = {}
    /\ resume' = {}
    /\ DropStageHist
    /\ DropNormHist
    /\ UNCHANGED <<fs, torn, ledger, failed, owed, retried, normRan, added, arHist,
                   archived, redone>>
    /\ Recorded("env")
    /\ UNCHANGED <<succeeded, again>>

\* backup_files entered while the transcription loop still has files to examine.
backup_begin_early ==
    /\ pc = "transcribing"
    /\ pc' = "backup_input"
    /\ todo' = WavFiles("playlist")
    /\ arRaw' = WavFiles("playlist")
    /\ arNorm' = WavFiles("playlist_normalized")
    /\ DropStageHist
    /\ DropNormHist
    /\ UNCHANGED <<fs, torn, ledger, failed, owed, retried, normRan, added, archived,
                   resume, redone>>
    /\ Recorded("none")
    /\ UNCHANGED <<succeeded, again>>

\* backup_files: the listing of input_directory, after transcribe_audio_files returned.
backup_begin ==
    /\ pc = "transcribing"
    /\ todo = {}
    /\ pc' = "backup_input"
    /\ todo' = WavFiles("playlist")
    /\ arRaw' = WavFiles("playlist")
    /\ arNorm' = WavFiles("playlist_normalized")
    /\ DropStageHist
    /\ DropNormHist
    /\ UNCHANGED <<fs, torn, ledger, failed, owed, retried, normRan, added, archived,
                   resume, redone>>
    /\ Recorded("none")
    /\ UNCHANGED <<succeeded, again>>

\* One iteration of the first loop of backup_files.
backup_move_input(f) ==
    /\ pc = "backup_input"
    /\ f \in todo
    /\ todo' = todo \ {f}
    /\ fs' = MovedFs({f}, "playlist", "backup/input")
    /\ torn' = MovedTorn({f}, "playlist", "backup/input")
    /\ UNCHANGED <<ledger, pc, stageHist, failed, owed, retried, normHist, normRan, added,
                   arHist, archived, resume, redone>>
    /\ Recorded("none")
    /\ UNCHANGED <<succeeded, again>>

\* shutil.move raises in the first loop of backup_files (the destination cannot be
\* written): the exception leaves run().
backup_raise(f) ==
    /\ pc = "backup_input"
    /\ f \in todo
    /\ pc' = "aborted"
    /\ todo' = {}
    /\ resume' = {}
    /\ DropArHist
    /\ UNCHANGED <<fs, torn, ledger, stageHist, failed, owed, retried, normHist, normRan,
                   added, archived, redone, succeeded, again>>
    /\ Recorded("env")

\* The second loop of backup_files over the .wav files of normalized_directory, and the
\* return of backup_files and run().
backup_move_normalized ==
    /\ pc = "backup_input"
    /\ todo = {}
    /\ LET normalized_files == WavFiles(backup_normalized_arg)
       IN /\ fs' = MovedFs(normalized_files, backup_normalized_arg, "backup/normalized")
          /\ torn' = MovedTorn(normalized_files, backup_normalized_arg, "backup/normalized")
    /\ archived' = archived \cup arRaw
    /\ pc' = "done"
    /\ resume' = {}
    /\ UNCHANGED <<ledger, todo, stageHist, failed, owed, retried, normHist, normRan, added,
                   arHist, redone>>
    /\ Recorded("none")
    /\ UNCHANGED <<succeeded, again>>

\* The run stands between the return of normalize_audio_files and the first iteration
\* of the transcription loop.
BeforeTranscription ==
    \/ pc = "transcribe"
    \/ pc = "transcribing" /\ todo = batch

\* ctrl_c: SIGINT between two steps of run(); exit(0) ends the process at once.
ctrl_c ==
    /\ pc \notin Resting
    /\ pc' = "interrupted"
    /\ todo' = {}
    /\ resume' = IF BeforeTranscription THEN HandedSet ELSE {}
    /\ DropStageHist
    /\ DropNormHist
    /\ DropArHist
    /\ UNCHANGED <<fs, torn, ledger, failed, owed, retried, normRan, added, archived, redone>>
    /\ Recorded("none")
    /\ UNCHANGED <<succeeded, again>>

\* ctrl_c while the normalizer is writing the output file of f: the file is left
\* partially written.
ctrl_c_normalizing(f) ==
    /\ pc = "normalizing"
    /\ f \in todo
    /\ pc' = "interrupted"
    /\ todo' = {}
    /\ resume' = {}
    /\ fs' = WrittenFs("playlist_normalized", {f})
    /\ torn' = torn \cup {<<"playlist_normalized", f>>}
    /\ DropNormHist
    /\ UNCHANGED <<ledger, stageHist, failed, owed, retried, normRan, added, arHist,
                   archived, redone>>
    /\ Recorded("none")
    /\ UNCHANGED <<succeeded, again>>

\* ctrl_c while ./main runs for f: the child is killed while it writes its n-th
\* artifact, which is left partially written.
ctrl_c_transcribing(f, n) ==
    /\ pc = "transcribing"
    /\ f \in todo
    /\ ~all_exist(f)
    /\ n \in 1..3
    /\ pc' = "interrupted"
    /\ todo' = {}
    /\ resume' = {}
    /\ owed' = owed \ {f}
    /\ retried' = retried \cup ({f} \cap owed)
    /\ DropStageHist
    /\ DropNormHist
    /\ fs' = WrittenFs("output", ArtifactFiles(f, Written(n)))
    /\ torn' = (torn \ Paths("output", ArtifactFiles(f, Written(n))))
                  \cup Paths("output", ArtifactFiles(f, {WriteOrder[n]}))
    /\ UNCHANGED <<ledger, failed, normRan, added, arHist, archived, redone>>
    /\ again' = again \cup ({f} \cap succeeded)
    /\ UNCHANGED succeeded
    /\ Recorded("none")

\* main() with --setup: create_config_file and load_configuration; transcribe.cfg lies
\* outside the directories of the pipeline.
setup_start ==
    /\ pc \in Resting
    /\ pc' = "setup_check"
    /\ afterAbort' = (pc = "aborted")
    /\ cause' = "none"
    /\ mutated' = FALSE
    /\ UNCHANGED <<fs, torn, ledger, todo, stageHist, failed, owed, retried, normHist, normRan,
                   added, arHist, archived, resume, redone, succeeded, again>>

\* check_dependencies: exit(1) when shutil.which finds no ffmpeg or no git.
check_dependencies(ok) ==
    /\ pc = "setup_check"
    /\ pc' = IF ok THEN "setup_whisper" ELSE "aborted"
    /\ UNCHANGED <<fs, torn, ledger, todo, stageHist, failed, owed, retried, normHist, normRan,
                   added, arHist, archived, resume, redone, succeeded, again>>
    /\ Recorded(IF ok THEN "none" ELSE "env")

\* setup_whisper: git clone, make and the model download run with check=True, so a
\* failing or absent command raises.
setup_whisper(ok) ==
    /\ pc = "setup_whisper"
    /\ pc' = IF ok THEN "setup_test" ELSE "aborted"
    /\ UNCHANGED <<fs, torn, ledger, todo, stageHist, failed, owed, retried, normHist, normRan,
                   added, arHist, archived, resume, redone, succeeded, again>>
    /\ Recorded(IF ok THEN "none" ELSE "env")

\* Outcomes of subprocess.run(["./main", ...], check=True) in run_transcription_test:
\* return code zero, CalledProcessError (non-zero return code: the engine cannot
\* transcribe, e.g. models/ggml-<MODEL>.bin is absent), FileNotFoundError (no ./main).
TestOutcomes == {"zero", "nonzero", "absent"}

\* run_transcription_test: CalledProcessError is caught and logged, any other exception
\* leaves main(); then main() returns.
run_transcription_test(res) ==
    /\ pc = "setup_test"
    /\ res \in TestOutcomes
    /\ pc' = IF res = "absent" THEN "aborted" ELSE "setup_done"
    /\ UNCHANGED <<fs, torn, ledger, todo, stageHist, failed, owed, retried, normHist, normRan,
                   added, arHist, archived, resume, redone, succeeded, again>>
    /\ Recorded(IF res = "zero" THEN "none" ELSE "env")

\* Exit status of the process in a resting state: 0 when main() returned or ctrl_c
\* called exit(0), 1 after exit(1) or an uncaught exception.
ExitCode == IF pc = "aborted" THEN 1 ELSE 0

Next ==
    \/ run_start
    \/ run_raise
    \/ setup_start
    \/ \E ok \in BOOLEAN : check_dependencies(ok)
    \/ \E ok \in BOOLEAN : setup_whisper(ok)
    \/ \E res \in TestOutcomes : run_transcription_test(res)
    \/ normalize_raise
    \/ \E f \in WavNames : backup_raise(f)
    \/ \E S \in SUBSET Items, ok \in BOOLEAN : download_audio_files(S, ok)
    \/ \E ok \in BOOLEAN : generate_graph(ok)
    \/ normalize_begin
    \/ \E f \in WavNames, ok \in BOOLEAN : normalize_file(f, ok)
    \/ normalize_return
    \/ transcribe_begin
    \/ \E f \in WavNames, out \in whisper_outcomes : transcribe_file(f, out)
    \/ \E f \in WavNames : transcribe_raise(f)
    \/ backup_begin
    \/ \E f \in WavNames : backup_move_input(f)
    \/ backup_move_normalized
    \/ ctrl_c
    \/ \E f \in WavNames : ctrl_c_normalizing(f)
    \/ \E f \in WavNames, n \in 1..3 : ctrl_c_transcribing(f, n)

Spec == Init /\ [][Next]_vars

----------------------------------------------------------------------------
\* Points of a run the properties below refer to.

\* The loop of transcribe_audio_files has examined every file of its listing.
TranscriptionDone == pc = "transcribing" /\ todo = {}
\* run_normalization has processed the whole work list.
NormalizationDone == pc = "normalizing" /\ todo = {}
\* Files of the batch that lacked at least one artifact when they were examined.
Incomplete == {f \in batch : found[f] # Unexamined /\ found[f] # Artifacts}
\* Files of the batch that had all three artifacts when they were examined.
Complete == {f \in batch : found[f] = Artifacts}

----------------------------------------------------------------------------
\* C1: when the collaborator returned non-zero for some file of the batch, the stage
\* has still invoked the collaborator for every file of the batch that was not found
\* with a complete artifact set, every file whose call did not return non-zero has its
\* three artifacts, and no file whose call returned non-zero has a complete artifact
\* set after the stage.
C1_FailureIsolation ==
    (TranscriptionDone /\ failed # {}) =>
        /\ \A f \in batch \ Complete : calls[f] >= 1
        /\ \A f \in batch \ failed : Existing(f) = Artifacts
        /\ \A f \in failed : Existing(f) # Artifacts

\* A stage in which one file failed and another, incomplete one, was transcribed.
C1_Witness ==
    /\ TranscriptionDone
    /\ \E c \in failed, d \in Incomplete \ failed :
          /\ calls[c] = 1
          /\ calls[d] = 1
          /\ Existing(d) = Artifacts
          /\ Existing(c) # Artifacts

C3_CompleteIsSkipped == \A f \in Complete : calls[f] = 0

\* A stage that examined a file with a complete artifact set.
C3_Witness == TranscriptionDone /\ Complete # {}

\* C4 as stated: after the stage every file that lacked an artifact has been invoked
\* exactly once and has all three artifacts.
C4_Original ==
    TranscriptionDone =>
        \A f \in Incomplete : calls[f] = 1 /\ Existing(f) = Artifacts

\* C4 as amended: after the stage every file that lacked an artifact has been invoked
\* exactly once, and has all three artifacts, fully written, if that call returned zero.
C4_IncompleteIsInvokedOnce ==
    TranscriptionDone =>
        \A f \in Incomplete :
            /\ calls[f] = 1
            /\ (f \notin failed => FullyTranscribed(f))

\* A file found with some but not all of its artifacts, re-invoked with success.
C4_Witness ==
    /\ TranscriptionDone
    /\ \E f \in Incomplete \ failed :
          /\ found[f] # {}
          /\ calls[f] = 1
          /\ FullyTranscribed(f)

\* C5: an execution of normalize_audio_files that follows a returned execution, with no
\* new input file in between, hands no file to the normalizer.
C5_NormalizationIdempotent ==
    (pc = "normalizing" /\ normRan /\ ~added) => HandedSet = {}

\* A second execution that listed input files and found them all normalized.
C5_Witness ==
    /\ pc = "normalizing"
    /\ normRan
    /\ ~added
    /\ normR # {}

\* C6: the files handed to the normalizer are exactly those of R \ N, each once, and
\* when the stage has processed its work list the output directory holds exactly N u R.
C6_WorkListIsDifference ==
    (pc = "normalizing") =>
        /\ HandedSet = normR \ normN
        /\ \A f \in WavNames : handed[f] <= 1
        /\ NormalizationDone => fs["playlist_normalized"] = normN \cup normR

\* Two raw files, an empty output directory: two files handed, both in the output.
C6_Witness ==
    /\ NormalizationDone
    /\ normN = {}
    /\ Cardinality(normR) = 2
    /\ Cardinality(HandedSet) = 2
    /\ fs["playlist_normalized"] = normR

\* C7: after archival no file that was in playlist/ or playlist_normalized/ at its start
\* remains there, and each is under backup/input/ or backup/normalized/.
C7_ArchivalMovesBoth ==
    (pc = "done") =>
        /\ \A f \in arRaw : f \notin fs["playlist"] /\ f \in fs["backup/input"]
        /\ \A f \in arNorm :
              f \notin fs["playlist_normalized"] /\ f \in fs["backup/normalized"]

\* C8: the run that follows an interrupt between normalization and transcription invokes
\* the collaborator for the files that run had normalized and for no file whose raw
\* input an earlier run archived.
C8_ResumeTranscribesOnlyNew ==
    (TranscriptionDone /\ resume # {}) =>
        /\ \A f \in resume : calls[f] = 1
        /\ \A f \in archived : calls[f] = 0

\* C9: after a complete run without a failed item, every acquired item has a fully
\* written normalized file and a fully written complete artifact set, and the run
\* re-processed no item that was already complete.
C9_NoPartialOutputCounts ==
    (pc = "done" /\ failed = {}) =>
        /\ \A i \in ledger :
              /\ \/ Intact("playlist_normalized", Wav(i))
                 \/ Intact("backup/normalized", Wav(i))
              /\ FullyTranscribed(Wav(i))
        /\ ~redone

\* C10: an item whose archival completed is in no working directory and in no later
\* stage scan.
C10_ArchivedIsGone ==
    \A f \in archived :
        /\ f \notin fs["playlist"]
        /\ f \notin fs["playlist_normalized"]
        /\ (pc \in {"normalizing", "transcribing", "backup_input"} => f \notin todo)

\* The points of run() in program order.
StageOrder == <<"download", "graph", "normalize", "normalizing", "transcribe",
                "transcribing", "backup_input", "done">>
\* Position of a point of run() in the program order (0: not a point of run()).
StageIndex(p) ==
    IF \E k \in 1..Len(StageOrder) : StageOrder[k] = p
    THEN CHOOSE k \in 1..Len(StageOrder) : StageOrder[k] = p
    ELSE 0

\* C11: a run passes acquisition, reporting, normalization, transcription and archival
\* in this order; archival starts only when the transcription loop has examined every
\* file of its batch, and no file reaches backup/ outside the archival stage.
C11_StageOrder ==
    [][/\ (pc' # pc /\ pc \notin Resting /\ StageIndex(pc') > 0)
            => StageIndex(pc') = StageIndex(pc) + 1
       /\ (pc' = "backup_input" /\ pc # "backup_input")
            => /\ pc = "transcribing"
               /\ \A f \in batch : found[f] # Unexamined
               /\ \A f \in batch : found[f] = Artifacts \/ calls[f] >= 1
       /\ (fs'["backup/input"] # fs["backup/input"]
            \/ fs'["backup/normalized"] # fs["backup/normalized"])
            => pc = "backup_input"]_vars

\* Archival has moved a raw file of a run whose transcription batch was not empty.
C11_Witness ==
    /\ pc = "backup_input"
    /\ arNorm # {}
    /\ todo # arRaw
    /\ fs["backup/input"] # {}

\* C12: a step that ends the run by a fatal condition removes or changes no file and no
\* ledger entry, after it nothing happens but the start of a new process, and the run
\* after an aborted one re-processes no item whose output was fully written.
C12_FatalAbort ==
    [][/\ (pc' = "aborted")
            => /\ \A d \in Dirs : fs[d] \subseteq fs'[d]
               /\ ledger \subseteq ledger'
               /\ torn' = torn
       /\ (pc = "aborted") => pc' \in {"download", "setup_check", "aborted"}
       /\ afterAbort' => ~redone']_vars

\* The run after an aborted one has finished its transcription loop: a file normalized
\* before was not handed to the normalizer again and was transcribed now.
C12_Witness ==
    /\ afterAbort
    /\ TranscriptionDone
    /\ \E f \in batch : f \in normN /\ handed[f] = 0 /\ calls[f] = 1

\* C13: the step by which SIGINT stops the process creates no partially written file,
\* leaves every file written before in place, and leaves an item whose artifacts it
\* changed with its complete, fully written artifact set.
C13_InterruptAfterCurrentItem ==
    [][(pc' = "interrupted" /\ pc # "interrupted")
          => /\ torn' \subseteq torn
             /\ \A d \in Dirs : fs[d] \subseteq fs'[d]
             /\ \A f \in WavNames : Existing(f)' # Existing(f) => FullyTranscribed(f)'
      ]_vars

\* C14: a run ends by a fatal condition only for an environment-level error, never
\* because one file failed normalization or transcription.
C14_ItemErrorNeverAborts ==
    (pc = "aborted") => cause = "env"

\* C15: a process that ends because a required external capability is missing has
\* created or changed no file and no ledger entry.
C15_EnvAbortBeforeMutation ==
    (pc = "aborted" /\ cause = "env") => ~mutated

\* C16: no step removes an id from the ledger or removes the ledger file, and no step
\* puts the raw file of an item that is in the ledger into playlist/ again.
C16_LedgerOnlyGrows ==
    [][/\ ledger \subseteq ledger'
       /\ LedgerFile \in fs["playlist"] => LedgerFile \in fs'["playlist"]
       /\ \A i \in ledger : Wav(i) \in fs'["playlist"] => Wav(i) \in fs["playlist"]]_vars

\* Acquisition has run while the raw file of a recorded item was gone from playlist/.
C16_Witness ==
    /\ pc = "graph"
    /\ \E i \in ledger : Wav(i) \notin fs["playlist"] /\ Wav(i) \in fs["backup/input"]

\* C17: the process exits with status 0 when the selected mode ran to its end, and with
\* a non-zero status whenever it found a required external capability missing.
C17_ExitStatus ==
    /\ (pc \in {"done", "setup_done"}) => ExitCode = 0
    /\ (pc \in Resting /\ cause = "env") => ExitCode # 0

\* C18: when archival has run to its end, every raw .wav and every normalized .wav that
\* was there at its start is in the backup location, with or without its artifacts.
C18_ArchivalUnconditional ==
    (pc = "done") =>
        \A f \in arRaw \cup arNorm :
            /\ f \in arRaw => f \in fs["backup/input"]
            /\ f \in arNorm => f \in fs["backup/normalized"]

\* C19: the collaborator is never invoked for an item after an invocation for that item
\* returned zero and wrote all three artifacts.
C19_AtMostOnceSuccess ==
    again = {}

\* A later transcription stage has examined a file transcribed with success before, and
\* has not invoked the collaborator for it.
C19_Witness ==
    /\ TranscriptionDone
    /\ \E f \in batch \cap succeeded : f \notin failed /\ calls[f] = 0 /\ found[f] = Artifacts
    /\ \E f \in batch : calls[f] = 1

\* C20: every .wav in backup/input/ has a normalized file of the same name in
\* playlist_normalized/ or in backup/normalized/.
C20_ArchivedRawIsNormalized ==
    \A f \in WavFiles("backup/input") :
        f \in fs["playlist_normalized"] \/ f \in fs["backup/normalized"]

\* Archival has moved both raw files of a run that normalized them.
C20_Witness ==
    /\ pc = "done"
    /\ WavFiles("backup/input") = WavNames
    /\ arRaw # {}

====
